---------------------------- MODULE Spec2Model ----------------------------
(***************************************************************************)
(* Credential and token core of the fiber authentication service:          *)
(* UserUseCase (RegisterUser, AuthenticateUser, GetUserByID) over the      *)
(* SQLite users table, and the JWT Service (GenerateToken, ValidateToken). *)
(*                                                                         *)
(* Strings whose characters matter (passwords, birthdays) are sequences of *)
(* one-character strings; e-mails and names are compared as whole values.  *)
(***************************************************************************)
EXTENDS Integers, Sequences, FiniteSets, TLC

VARIABLES
    users,      \* rows of the users table
    seq,        \* sqlite_sequence of the users table: the largest id ever assigned
    reg,        \* per caller: the RegisterUser call in flight between GetByEmail and Create
    now,        \* wall clock, in ticks of 1/TicksPerSecond s
    out,        \* what the operation of the last step returned to its caller
    regPlain,   \* history: <<id, plaintext>> of every stored row that RegisterUser persisted
    tok,        \* the token string a client holds
    issued      \* history: the GenerateToken call that made tok, and what it returned

vars == <<users, seq, reg, now, out, regPlain, tok, issued>>

-----------------------------------------------------------------------------
(* Bounds of the model *)

NumCallers == 2
MaxId == 2
MaxNow == 1
\* the token clock: whole days and ticks into the day
MaxDays == 1
MaxDayTicks == 3
\* ticks the clock may advance between the two time.Now() of GenerateToken
MaxSkew == 1

Callers == 1..NumCallers

-----------------------------------------------------------------------------
(* Input values *)

Emails == {"a@b.co", "c@d.co"}
FullNames == {"A B"}
PhoneNumbers == {"0812345678"}

PwSecret1 == <<"s", "e", "c", "r", "e", "t", "1">>
PwSecret2 == <<"s", "e", "c", "r", "e", "t", "2">>
\* one byte more than bcrypt takes
PwTooLong == [i \in 1..73 |-> "x"]
Passwords == {PwSecret1, PwSecret2, PwTooLong}

BdValid == <<"1", "9", "9", "0", "-", "0", "1", "-", "1", "5">>
BdNoPad == <<"1", "9", "9", "0", "-", "1", "-", "1">>
BdSlash == <<"1", "9", "9", "0", "/", "0", "1", "/", "1", "5">>
BdEmpty == <<>>
BdMonth13 == <<"1", "9", "9", "0", "-", "1", "3", "-", "0", "1">>
BdTrailing == <<"1", "9", "9", "0", "-", "0", "1", "-", "1", "5", "T">>
Birthdays == {BdValid, BdNoPad, BdSlash, BdEmpty, BdMonth13, BdTrailing}

Salts == {"salt1"}

-----------------------------------------------------------------------------
(* entity.User *)

NilUser ==
    [ID |-> -1, Email |-> "", Password |-> <<>>, FullName |-> "",
     PhoneNumber |-> "", Birthday |-> <<>>, CreatedAt |-> -1]

NewUser(email, password, fullName, phoneNumber, birthday, t) ==
    [ID |-> 0, Email |-> email, Password |-> password, FullName |-> fullName,
     PhoneNumber |-> phoneNumber, Birthday |-> birthday, CreatedAt |-> t]

WithoutPasswordKeeps(u) == u

WithoutPassword(u) == [u EXCEPT !.Password = <<>>]

-----------------------------------------------------------------------------
(* time.Parse("2006-01-02", value): nil error or not *)

Digits == {"0", "1", "2", "3", "4", "5", "6", "7", "8", "9"}

DigitVal(c) ==
    CASE c = "0" -> 0 [] c = "1" -> 1 [] c = "2" -> 2 [] c = "3" -> 3 [] c = "4" -> 4
      [] c = "5" -> 5 [] c = "6" -> 6 [] c = "7" -> 7 [] c = "8" -> 8 [] c = "9" -> 9

isDigit(s, i) == i <= Len(s) /\ s[i] \in Digits

Drop(s, n) == SubSeq(s, n + 1, Len(s))

\* getnum(s, fixed = true): two digits or an error
getnum2(s) ==
    IF isDigit(s, 1) /\ isDigit(s, 2)
    THEN [ok |-> TRUE, n |-> 10 * DigitVal(s[1]) + DigitVal(s[2]), rest |-> Drop(s, 2)]
    ELSE [ok |-> FALSE, n |-> 0, rest |-> s]

\* stdLongYear: four bytes, the first a digit, all of them digits for atoi
getyear(s) ==
    IF Len(s) >= 4 /\ isDigit(s, 1) /\ \A i \in 2..4 : isDigit(s, i)
    THEN [ok |-> TRUE,
          n |-> 1000 * DigitVal(s[1]) + 100 * DigitVal(s[2]) + 10 * DigitVal(s[3]) + DigitVal(s[4]),
          rest |-> Drop(s, 4)]
    ELSE [ok |-> FALSE, n |-> 0, rest |-> s]

\* skip(value, "-")
skipDash(s) ==
    IF Len(s) >= 1 /\ s[1] = "-"
    THEN [ok |-> TRUE, rest |-> Drop(s, 1)]
    ELSE [ok |-> FALSE, rest |-> s]

isLeap(year) == year % 4 = 0 /\ (year % 100 # 0 \/ year % 400 = 0)

daysIn(month, year) ==
    IF month = 2 THEN (IF isLeap(year) THEN 29 ELSE 28)
    ELSE IF month \in {4, 6, 9, 11} THEN 30 ELSE 31

timeParseLenient(value) ==
    LET y == getyear(value)
        d1 == skipDash(y.rest)
        m == getnum2(d1.rest)
        d2 == skipDash(m.rest)
        d == getnum2(d2.rest)
    IN  /\ y.ok /\ d1.ok /\ m.ok /\ d2.ok /\ d.ok
        /\ m.n \in 1..12
        /\ d.n >= 1 /\ d.n <= daysIn(m.n, y.n)

\* TRUE iff time.Parse returns a nil error
timeParse(value) ==
    LET y == getyear(value)
        d1 == skipDash(y.rest)
        m == getnum2(d1.rest)
        d2 == skipDash(m.rest)
        d == getnum2(d2.rest)
    IN  /\ y.ok /\ d1.ok /\ m.ok /\ d2.ok /\ d.ok
        /\ m.n \in 1..12
        /\ d.rest = <<>>
        /\ d.n >= 1 /\ d.n <= daysIn(m.n, y.n)

-----------------------------------------------------------------------------
(* bcrypt: an ideal salted one-way hash.  The encoded hash is the version  *)
(* prefix, the salt and the digest; the digest of a key under a salt is    *)
(* written as the key itself, which only CompareHashAndPassword reads.     *)

BcryptMaxLen == 72

BcryptPrefix == "$2a$10$"

Min(a, b) == IF a < b THEN a ELSE b

\* the blowfish key schedule consumes at most BcryptMaxLen bytes of the password
bcryptKey(password) == SubSeq(password, 1, Min(Len(password), BcryptMaxLen))

GenerateFromPasswordPlain(password, salt) ==
    [err |-> Len(password) > BcryptMaxLen, hash |-> password]

GenerateFromPassword(password, salt) ==
    IF Len(password) > BcryptMaxLen
    THEN [err |-> TRUE, hash |-> <<>>]
    ELSE [err |-> FALSE, hash |-> <<BcryptPrefix, salt>> \o bcryptKey(password)]

CompareHashAndPasswordRaw(hashedPassword, password) == hashedPassword = password

\* TRUE iff bcrypt.CompareHashAndPassword returns a nil error
CompareHashAndPassword(hashedPassword, password) ==
    /\ Len(hashedPassword) >= 2
    /\ hashedPassword[1] = BcryptPrefix
    /\ Drop(hashedPassword, 2) = bcryptKey(password)


-----------------------------------------------------------------------------
(* SQLiteUserRepository over the users table                                *)
(*   id INTEGER PRIMARY KEY AUTOINCREMENT, email TEXT UNIQUE NOT NULL, ...  *)
(* Every method is one SQL statement, atomic in the database.  `fault` is   *)
(* any other failure of the statement (I/O error, locked database).         *)

Faults == {FALSE}

Row(rows, id) == CHOOSE r \in rows : r.ID = id

GetByEmail(rows, email, fault) ==
    IF ~fault /\ \E r \in rows : r.Email = email
    THEN [err |-> FALSE, user |-> CHOOSE r \in rows : r.Email = email]
    ELSE [err |-> TRUE, user |-> NilUser]

GetByID(rows, id, fault) ==
    IF ~fault /\ \E r \in rows : r.ID = id
    THEN [err |-> FALSE, user |-> Row(rows, id)]
    ELSE [err |-> TRUE, user |-> NilUser]

CreateNoUnique(rows, s, user, fault) ==
    IF fault
    THEN [err |-> TRUE, user |-> NilUser, rows |-> rows, seq |-> s]
    ELSE [err |-> FALSE, user |-> [user EXCEPT !.ID = s + 1],
          rows |-> rows \cup {[user EXCEPT !.ID = s + 1]}, seq |-> s + 1]

CreateStoresThenFails(rows, s, user, fault) ==
    IF \E r \in rows : r.Email = user.Email
    THEN [err |-> TRUE, user |-> NilUser, rows |-> rows, seq |-> s]
    ELSE [err |-> fault, user |-> IF fault THEN NilUser ELSE [user EXCEPT !.ID = s + 1],
          rows |-> rows \cup {[user EXCEPT !.ID = s + 1]}, seq |-> s + 1]

CreateReusesId(rows, s, user, fault) ==
    LET id == IF rows = {} THEN 1
              ELSE 1 + CHOOSE m \in {r.ID : r \in rows} : \A r \in rows : r.ID <= m
    IN  IF fault \/ \E r \in rows : r.Email = user.Email
        THEN [err |-> TRUE, user |-> NilUser, rows |-> rows, seq |-> s]
        ELSE [err |-> FALSE, user |-> [user EXCEPT !.ID = id],
              rows |-> rows \cup {[user EXCEPT !.ID = id]},
              seq |-> IF id > s THEN id ELSE s]

\* INSERT ... RETURNING id; the UNIQUE index on email rejects a second row;
\* id is AUTOINCREMENT: one more than the largest id the table ever held
Create(rows, s, user, fault) ==
    IF fault \/ \E r \in rows : r.Email = user.Email
    THEN [err |-> TRUE, user |-> NilUser, rows |-> rows, seq |-> s]
    ELSE [err |-> FALSE, user |-> [user EXCEPT !.ID = s + 1],
          rows |-> rows \cup {[user EXCEPT !.ID = s + 1]}, seq |-> s + 1]

UpdatedWholeRow(r, user) == user

\* the row r after the SET clause ran with the fields of user
Updated(r, user) ==
    [r EXCEPT !.Email = user.Email, !.FullName = user.FullName,
              !.PhoneNumber = user.PhoneNumber, !.Birthday = user.Birthday]

\* UPDATE users SET email, full_name, phone_number, birthday WHERE id = ?
Update(rows, user, fault) ==
    IF fault \/ \E r \in rows : r.ID # user.ID /\ r.Email = user.Email
                                 /\ \E t \in rows : t.ID = user.ID
    THEN [err |-> TRUE, rows |-> rows]
    ELSE [err |-> FALSE,
          rows |-> {IF r.ID = user.ID THEN Updated(r, user) ELSE r : r \in rows}]

DeleteStrict(rows, id, fault) ==
    IF fault \/ ~\E r \in rows : r.ID = id
    THEN [err |-> TRUE, rows |-> rows]
    ELSE [err |-> FALSE, rows |-> {r \in rows : r.ID # id}]

\* DELETE FROM users WHERE id = ?
Delete(rows, id, fault) ==
    IF fault
    THEN [err |-> TRUE, rows |-> rows]
    ELSE [err |-> FALSE, rows |-> {r \in rows : r.ID # id}]

NoErr == ""

\* the messages of the errors the driver returns from the INSERT
ErrUniqueEmail == "UNIQUE constraint failed: users.email"
ErrDatabase == "database is locked"

\* the error Create returns for these rows and this user, by its message
CreateError(rows, user, fault) ==
    IF fault THEN ErrDatabase
    ELSE IF \E r \in rows : r.Email = user.Email THEN ErrUniqueEmail
    ELSE NoErr

-----------------------------------------------------------------------------
(* pkg/jwt Service over golang-jwt/jwt/v5.                                  *)
(* A token string is its three dot-separated segments.  The header and the  *)
(* payload segment are written as the JSON object they encode; the          *)
(* signature segment is written as the MAC it encodes and, for each of its  *)
(* base64url characters, the bits by which the character differs from the   *)
(* encoder's output (0: the character is as encoded).  HMAC is ideal: two   *)
(* tags agree only when key, hash and signing string agree.                 *)

TicksPerSecond == 2
ExpiryHours == 24
SecondsPerHour == 3600
DayTicks == ExpiryHours * SecondsPerHour * TicksPerSecond

\* base64url without padding of the 32 bytes of HMAC-SHA256: 43 characters,
\* the last one carrying 4 bits of the tag and 2 unused bits
SigLen == 43
UnusedBits == 2
NotBase64 == 64

SecretKeys == {"test-secret", "wrong-secret"}
UserIDs == {1, 2}

\* string(rune(userID))
RuneString(userID) ==
    IF userID < 0 \/ userID > 1114111 \/ (userID >= 55296 /\ userID <= 57343)
    THEN <<65533>>
    ELSE <<userID>>

\* jwt.NewNumericDate(t) as the JSON number it is written as: whole seconds
NumericDate(t) == t \div TicksPerSecond

\* NumericDate.Time of a JSON number
NumericTime(n) == n * TicksPerSecond

\* json.Marshal of Claims
MarshalClaims(c) ==
    [user_id |-> c.UserID, email |-> c.Email, exp |-> NumericDate(c.ExpiresAt),
     iat |-> NumericDate(c.IssuedAt), sub |-> c.Subject]

UnmarshalClaimsDropsUserID(p) ==
    [UserID |-> 0, Email |-> p.email, ExpiresAt |-> NumericTime(p.exp),
     IssuedAt |-> NumericTime(p.iat), Subject |-> p.sub]

\* json.Unmarshal into &Claims{}
UnmarshalClaims(p) ==
    [UserID |-> p.user_id, Email |-> p.email, ExpiresAt |-> NumericTime(p.exp),
     IssuedAt |-> NumericTime(p.iat), Subject |-> p.sub]

NilClaims ==
    [UserID |-> 0, Email |-> "", ExpiresAt |-> 0, IssuedAt |-> 0, Subject |-> <<>>]

NoPayload == [user_id |-> 0, email |-> "", exp |-> 0, iat |-> 0, sub |-> <<>>]

\* the MAC of a signing string (header "." payload) under a key
Hmac(alg, key, header, payload) ==
    [alg |-> alg, key |-> key, header |-> header, payload |-> payload]

NoFlips == [i \in 1..SigLen |-> 0]

NoSignature == [mac |-> Hmac("", "", "", NoPayload), flips |-> NoFlips]

\* the empty string
NoToken == [parts |-> 1, header |-> "", payload |-> NoPayload, signature |-> NoSignature]

\* token.SignedString(key) of jwt.NewWithClaims(method, claims)
SignedString(alg, key, claims) ==
    LET payload == MarshalClaims(claims)
    IN  [parts |-> 3, header |-> alg, payload |-> payload,
         signature |-> [mac |-> Hmac(alg, key, alg, payload), flips |-> NoFlips]]

\* base64.RawURLEncoding.DecodeString of the signature segment: the bytes
\* differ from the encoded MAC in the flipped bits that carry data
DecodeSegmentSkipsBad(sig) ==
    [err |-> FALSE, mac |-> sig.mac, changed |-> \E i \in 1..SigLen : sig.flips[i] # 0]

DecodeSegment(sig) ==
    IF \E i \in 1..SigLen : sig.flips[i] = NotBase64
    THEN [err |-> TRUE, mac |-> sig.mac, changed |-> TRUE]
    ELSE [err |-> FALSE, mac |-> sig.mac,
          changed |-> \/ \E i \in 1..(SigLen - 1) : sig.flips[i] # 0
                      \/ (sig.flips[SigLen] \div (2 ^ UnusedBits)) # 0]

ErrTokenMalformed == "token is malformed"
ErrTokenUnverifiable == "token is unverifiable"
ErrTokenSignatureInvalid == "token signature is invalid"
ErrTokenExpired == "token has invalid claims: token is expired"

\* a segment that is not the base64url encoding of a JSON object
BadSegment == "invalid"

HmacMethods == {"HS256", "HS384", "HS512"}
SigningMethods == HmacMethods \cup {"RS256", "none"}

\* SigningMethodHMAC.Verify: the decoded signature against the MAC of the
\* signing string under the key
HmacVerify(alg, key, header, payload, decoded) ==
    /\ ~decoded.changed
    /\ decoded.mac = Hmac(alg, key, header, payload)

GenerateTokenResult(secretKey, userID, email, t1, t2) ==
    LET expirationTime == t1 + DayTicks
        claims == [UserID |-> userID, Email |-> email, ExpiresAt |-> expirationTime,
                   IssuedAt |-> t2, Subject |-> RuneString(userID)]
    IN  [token |-> SignedString("HS256", secretKey, claims),
         expirationTime |-> expirationTime, err |-> NoErr]

ValidateTokenAtExpiry(secretKey, tokenString, t) ==
    LET fail(e) == [claims |-> NilClaims, err |-> e]
        decoded == DecodeSegment(tokenString.signature)
        claims == UnmarshalClaims(tokenString.payload)
    IN  IF tokenString.parts # 3 THEN fail(ErrTokenMalformed)
        ELSE IF tokenString.header = BadSegment THEN fail(ErrTokenMalformed)
        ELSE IF tokenString.header \notin SigningMethods THEN fail(ErrTokenUnverifiable)
        ELSE IF tokenString.header \notin HmacMethods THEN fail(ErrTokenUnverifiable)
        ELSE IF decoded.err THEN fail(ErrTokenMalformed)
        ELSE IF ~HmacVerify(tokenString.header, secretKey, tokenString.header,
                            tokenString.payload, decoded)
        THEN fail(ErrTokenSignatureInvalid)
        ELSE IF t > claims.ExpiresAt THEN fail(ErrTokenExpired)
        ELSE [claims |-> claims, err |-> NoErr]

\* jwt.ParseWithClaims with the key function of ValidateToken, at time t
ValidateTokenResult(secretKey, tokenString, t) ==
    LET fail(e) == [claims |-> NilClaims, err |-> e]
        decoded == DecodeSegment(tokenString.signature)
        claims == UnmarshalClaims(tokenString.payload)
    IN  IF tokenString.parts # 3 THEN fail(ErrTokenMalformed)
        ELSE IF tokenString.header = BadSegment THEN fail(ErrTokenMalformed)
        ELSE IF tokenString.header \notin SigningMethods THEN fail(ErrTokenUnverifiable)
        ELSE IF tokenString.header \notin HmacMethods THEN fail(ErrTokenUnverifiable)
        ELSE IF decoded.err THEN fail(ErrTokenMalformed)
        ELSE IF ~HmacVerify(tokenString.header, secretKey, tokenString.header,
                            tokenString.payload, decoded)
        THEN fail(ErrTokenSignatureInvalid)
        ELSE IF ~(t < claims.ExpiresAt) THEN fail(ErrTokenExpired)
        ELSE [claims |-> claims, err |-> NoErr]

-----------------------------------------------------------------------------
(* Results handed to callers *)

ErrDuplicateEmail == "user with this email already exists"
ErrInvalidBirthday == "invalid birthday format, should be YYYY-MM-DD"
ErrHashFailure == "failed to hash password"
ErrSaveFailure == "failed to save user"
ErrInvalidCredentials == "invalid credentials"
ErrUserNotFound == "user not found"

SaveErrorWrapsCause(cause) == cause

\* RegisterUser's error for a Create that failed with this cause
SaveError(cause) == ErrSaveFailure

\* op: the operation that returned; the arguments it was called with; err and
\* the values returned with it; cause: the error the store returned to it;
\* lookups: the GetByEmail calls a refused registration made before it returned;
\* monolith: what main.go's registerUser makes of the same request and store
NoOut ==
    [op |-> "none", caller |-> 0, email |-> "", password |-> <<>>, birthday |-> <<>>,
     id |-> 0, secret |-> "", at |-> 0, taken |-> FALSE, cause |-> NoErr,
     lookups |-> 0, monolith |-> [status |-> 0, rows |-> {}],
     status |-> 0, title |-> "", err |-> NoErr, user |-> NilUser,
     prefix |-> "", token |-> NoToken, expirationTime |-> 0,
     claims |-> NilClaims]

NoIssue == [secret |-> "", userID |-> 0, email |-> "", at |-> 0, expirationTime |-> 0]

Idle == [pc |-> "idle", user |-> NilUser, plain |-> <<>>]

InFlight == Cardinality({c \in Callers : reg[c].pc = "create"})

-----------------------------------------------------------------------------
(* UserUseCase *)

Init ==
    /\ users = {}
    /\ seq = 0
    /\ reg = [c \in Callers |-> Idle]
    /\ now = 0
    /\ out = NoOut
    /\ regPlain = {}
    /\ tok = NoToken
    /\ issued = NoIssue

\* RegisterUser up to the call of userRepo.Create: the lookup, the birthday
\* check and the hashing.  out.taken: a row with the e-mail was stored when
\* the lookup ran
RegisterUserCheck(c, email, password, fullName, phoneNumber, birthday, salt, fault) ==
    /\ reg[c].pc = "idle"
    /\ seq + InFlight < MaxId
    /\ LET existing == GetByEmail(users, email, fault)
           hashed == GenerateFromPassword(password, salt)
           fail(e) ==
               /\ out' = [NoOut EXCEPT !.op = "RegisterUser", !.caller = c, !.email = email,
                                       !.password = password, !.birthday = birthday,
                                       !.taken = \E r \in users : r.Email = email,
                                       !.lookups = 1, !.err = e]
               /\ reg' = reg
       IN  IF ~existing.err /\ existing.user # NilUser THEN fail(ErrDuplicateEmail)
           ELSE IF ~timeParse(birthday) THEN fail(ErrInvalidBirthday)
           ELSE IF hashed.err THEN fail(ErrHashFailure)
           ELSE /\ reg' = [reg EXCEPT ![c] =
                     [pc |-> "create", plain |-> password,
                      user |-> NewUser(email, hashed.hash, fullName, phoneNumber, birthday, now)]]
                /\ out' = NoOut
    /\ UNCHANGED <<users, seq, now, regPlain, tok, issued>>

\* RegisterUser from userRepo.Create to its return
RegisterUserCreate(c, fault) ==
    /\ reg[c].pc = "create"
    /\ LET u == reg[c].user
           saved == Create(users, seq, u, fault)
           cause == CreateError(users, u, fault)
           ret == [NoOut EXCEPT !.op = "RegisterUser", !.caller = c, !.email = u.Email,
                                !.password = reg[c].plain, !.birthday = u.Birthday,
                                !.cause = cause]
       IN  /\ users' = saved.rows
           /\ seq' = saved.seq
           /\ IF saved.err
              THEN /\ out' = [ret EXCEPT !.err = SaveError(cause)]
                   /\ regPlain' = regPlain
              ELSE /\ out' = [ret EXCEPT !.user = WithoutPassword(saved.user)]
                   /\ regPlain' = regPlain \cup {<<saved.user.ID, reg[c].plain>>}
    /\ reg' = [reg EXCEPT ![c] = Idle]
    /\ UNCHANGED <<now, tok, issued>>

AuthenticateUserNotFound(rows, email, password, fault) ==
    LET found == GetByEmail(rows, email, fault)
    IN  IF found.err THEN [user |-> NilUser, err |-> ErrUserNotFound]
        ELSE IF ~CompareHashAndPassword(found.user.Password, password)
        THEN [user |-> NilUser, err |-> ErrInvalidCredentials]
        ELSE [user |-> found.user, err |-> NoErr]

AuthenticateUserAnyPassword(rows, email, password, fault) ==
    LET found == GetByEmail(rows, email, fault)
    IN  IF found.err THEN [user |-> NilUser, err |-> ErrInvalidCredentials]
        ELSE [user |-> found.user, err |-> NoErr]

AuthenticateUserResult(rows, email, password, fault) ==
    LET found == GetByEmail(rows, email, fault)
    IN  IF found.err THEN [user |-> NilUser, err |-> ErrInvalidCredentials]
        ELSE IF ~CompareHashAndPassword(found.user.Password, password)
        THEN [user |-> NilUser, err |-> ErrInvalidCredentials]
        ELSE [user |-> found.user, err |-> NoErr]

AuthenticateUser(email, password, fault) ==
    /\ LET res == AuthenticateUserResult(users, email, password, fault)
       IN  out' = [NoOut EXCEPT !.op = "AuthenticateUser", !.email = email,
                                !.password = password, !.user = res.user, !.err = res.err]
    /\ UNCHANGED <<users, seq, reg, now, regPlain, tok, issued>>

GetUserByIDResult(rows, id, fault) ==
    LET found == GetByID(rows, id, fault)
    IN  IF found.err THEN [user |-> NilUser, err |-> ErrUserNotFound]
        ELSE [user |-> WithoutPassword(found.user), err |-> NoErr]

GetUserByID(id, fault) ==
    /\ LET res == GetUserByIDResult(users, id, fault)
       IN  out' = [NoOut EXCEPT !.op = "GetUserByID", !.id = id, !.user = res.user,
                                !.err = res.err]
    /\ UNCHANGED <<users, seq, reg, now, regPlain, tok, issued>>

-----------------------------------------------------------------------------
(* UserHandler.Login over the validator, the use case and the token service *)

JWTSecret == "your-secret-key"

\* the e-mail inputs the validator's `email` tag accepts
IsEmail(email) == email \in Emails

\* validator.Validate(&dto.LoginRequest): Email required,email; Password required
ValidLoginRequest(email, password) == email # "" /\ IsEmail(email) /\ password # <<>>

\* dto.UserResponse has no password field
UserResponse(u) == [u EXCEPT !.Password = <<>>]

Login(email, password, skew, fault) ==
    /\ now + skew <= MaxNow
    /\ LET auth == AuthenticateUserResult(users, email, password, fault)
           gen == GenerateTokenResult(JWTSecret, auth.user.ID, auth.user.Email, now, now + skew)
           resp == [NoOut EXCEPT !.op = "Login", !.email = email, !.password = password]
       IN  IF ~ValidLoginRequest(email, password)
           THEN /\ out' = [resp EXCEPT !.status = 400, !.title = "Validation failed",
                                       !.err = "validation error"]
                /\ now' = now
           ELSE IF auth.err # NoErr
           THEN /\ out' = [resp EXCEPT !.status = 401, !.title = "Authentication failed",
                                       !.err = auth.err]
                /\ now' = now
           ELSE IF gen.err # NoErr
           THEN /\ out' = [resp EXCEPT !.status = 500, !.title = "Token generation failed",
                                       !.err = gen.err]
                /\ now' = now + skew
           ELSE /\ out' = [resp EXCEPT !.status = 200, !.title = "Login successful",
                                       !.token = gen.token, !.user = UserResponse(auth.user),
                                       !.expirationTime = gen.expirationTime]
                /\ now' = now + skew
    /\ UNCHANGED <<users, seq, reg, regPlain, tok, issued>>

-----------------------------------------------------------------------------
(* Other clients of the repository *)

PwUnhashed == <<"h", "a", "s", "h", "e", "d">>

RepoCreate(email, fullName, fault) ==
    /\ seq + InFlight < MaxId
    /\ LET saved == Create(users, seq,
                           NewUser(email, PwUnhashed, fullName, "0812345678", BdValid, now), fault)
       IN  /\ users' = saved.rows
           /\ seq' = saved.seq
    /\ out' = NoOut
    /\ UNCHANGED <<reg, now, regPlain, tok, issued>>

RepoUpdate(id, email, fullName, birthday, fault) ==
    /\ LET res == Update(users,
                         [NewUser(email, <<>>, fullName, "0898765432", birthday, now)
                            EXCEPT !.ID = id], fault)
       IN  users' = res.rows
    /\ out' = NoOut
    /\ UNCHANGED <<seq, reg, now, regPlain, tok, issued>>

RepoDelete(id, fault) ==
    /\ users' = Delete(users, id, fault).rows
    /\ regPlain' = {h \in regPlain : \E r \in users' : r.ID = h[1]}
    /\ out' = NoOut
    /\ UNCHANGED <<seq, reg, now, tok, issued>>

Tick ==
    /\ now < MaxNow
    /\ now' = now + 1
    /\ out' = NoOut
    /\ UNCHANGED <<users, seq, reg, regPlain, tok, issued>>

\* Concurrent registrations racing each other and the other repository clients
Next ==
    \/ \E c \in Callers, email \in Emails, password \in {PwSecret1, PwSecret2},
          birthday \in {BdValid, BdNoPad}, salt \in Salts, fault \in Faults :
          RegisterUserCheck(c, email, password, "A B", "0812345678", birthday, salt, fault)
    \/ \E c \in Callers, fault \in Faults : RegisterUserCreate(c, fault)
    \/ \E email \in Emails, fault \in Faults : RepoCreate(email, "C D", fault)
    \/ \E id \in 1..MaxId, email \in Emails, fault \in Faults :
          RepoUpdate(id, email, "C D", BdNoPad, fault)
    \/ \E id \in 1..MaxId, fault \in Faults : RepoDelete(id, fault)

Spec == Init /\ [][Next]_vars

\* One caller of the use case at a time, over all the inputs, among the other
\* repository clients and the clock
NextService ==
    \/ \E email \in Emails, password \in Passwords, fullName \in FullNames,
          phoneNumber \in PhoneNumbers, birthday \in Birthdays, salt \in Salts, fault \in Faults :
          RegisterUserCheck(1, email, password, fullName, phoneNumber, birthday, salt, fault)
    \/ \E fault \in Faults : RegisterUserCreate(1, fault)
    \/ \E email \in Emails, password \in Passwords, fault \in Faults :
          AuthenticateUser(email, password, fault)
    \/ \E id \in 1..MaxId, fault \in Faults : GetUserByID(id, fault)
    \/ \E email \in Emails \cup {"not-an-email"}, password \in {PwSecret1, PwSecret2, <<>>},
          skew \in 0..MaxSkew, fault \in Faults :
          Login(email, password, skew, fault)
    \/ \E email \in Emails, fault \in Faults : RepoCreate(email, "C D", fault)
    \/ \E id \in 1..MaxId, email \in Emails, fault \in Faults :
          RepoUpdate(id, email, "C D", BdNoPad, fault)
    \/ \E id \in 1..MaxId, fault \in Faults : RepoDelete(id, fault)
    \/ Tick

SpecService == Init /\ [][NextService]_vars

-----------------------------------------------------------------------------
(* The token service and a client holding a token string *)

\* GenerateToken reads the clock twice; the clock may advance in between
GenerateToken(secretKey, userID, email, skew) ==
    /\ (now % DayTicks) + skew <= MaxDayTicks
    /\ LET res == GenerateTokenResult(secretKey, userID, email, now, now + skew)
       IN  /\ tok' = res.token
           /\ issued' = [secret |-> secretKey, userID |-> userID, email |-> email,
                         at |-> now, expirationTime |-> res.expirationTime]
           /\ out' = [NoOut EXCEPT !.op = "GenerateToken", !.secret = secretKey,
                                   !.id = userID, !.email = email, !.at = now,
                                   !.token = res.token,
                                   !.expirationTime = res.expirationTime, !.err = res.err]
    /\ now' = now + skew
    /\ UNCHANGED <<users, seq, reg, regPlain>>

ValidateTokenChecksUser(secretKey) ==
    /\ LET res == ValidateTokenResult(secretKey, tok, now)
           gone == res.err = NoErr /\ ~\E r \in users : r.ID = res.claims.UserID
       IN  out' = [NoOut EXCEPT !.op = "ValidateToken", !.secret = secretKey, !.at = now,
                                !.token = tok,
                                !.claims = IF gone THEN NilClaims ELSE res.claims,
                                !.err = IF gone THEN ErrUserNotFound ELSE res.err]
    /\ UNCHANGED <<users, seq, reg, now, regPlain, tok, issued>>

ValidateToken(secretKey) ==
    /\ LET res == ValidateTokenResult(secretKey, tok, now)
       IN  out' = [NoOut EXCEPT !.op = "ValidateToken", !.secret = secretKey, !.at = now,
                                !.token = tok, !.claims = res.claims, !.err = res.err]
    /\ UNCHANGED <<users, seq, reg, now, regPlain, tok, issued>>

\* the client replaces one character of the signature segment of its token
AlterSignature(i, bits) ==
    /\ tok.parts = 3
    /\ tok.signature.flips = NoFlips
    /\ tok' = [tok EXCEPT !.signature.flips[i] = bits]
    /\ out' = NoOut
    /\ UNCHANGED <<users, seq, reg, now, regPlain, issued>>

TickToken ==
    /\ (now % DayTicks) < MaxDayTicks
    /\ now' = now + 1
    /\ out' = NoOut
    /\ UNCHANGED <<users, seq, reg, regPlain, tok, issued>>

NextDay ==
    /\ (now \div DayTicks) < MaxDays
    /\ now' = now + DayTicks
    /\ out' = NoOut
    /\ UNCHANGED <<users, seq, reg, regPlain, tok, issued>>

AlteredPositions == {1, SigLen}
AlteredBits == {1, 3, 4, 32}

NextToken ==
    \/ \E secretKey \in SecretKeys, userID \in UserIDs, email \in Emails, skew \in 0..MaxSkew :
          GenerateToken(secretKey, userID, email, skew)
    \/ \E secretKey \in SecretKeys : ValidateToken(secretKey)
    \/ \E i \in AlteredPositions, bits \in AlteredBits : AlterSignature(i, bits)
    \/ TickToken
    \/ NextDay

SpecToken == Init /\ [][NextToken]_vars

-----------------------------------------------------------------------------
(* Token strings a client builds itself and sends to the service *)

\* a token the client signs itself: any registered algorithm, any key it
\* knows, an expiry now or in 24 hours
ForgeToken(alg, key, userID, email, expired) ==
    /\ LET claims == [UserID |-> userID, Email |-> email,
                      ExpiresAt |-> IF expired THEN now ELSE now + DayTicks,
                      IssuedAt |-> now, Subject |-> RuneString(userID)]
       IN  tok' = SignedString(alg, key, claims)
    /\ issued' = NoIssue
    /\ out' = NoOut
    /\ UNCHANGED <<users, seq, reg, now, regPlain>>

\* a string that is no token: "", "a.b", or three segments the first of which
\* decodes to no JSON object ("invalid.jwt.token")
MalformToken(parts, header) ==
    /\ tok' = [NoToken EXCEPT !.parts = parts, !.header = header]
    /\ issued' = NoIssue
    /\ out' = NoOut
    /\ UNCHANGED <<users, seq, reg, now, regPlain>>

\* one character of the signature segment replaced by one outside base64url
SpoilSignature(i) ==
    /\ tok.parts = 3
    /\ tok.signature.flips = NoFlips
    /\ tok' = [tok EXCEPT !.signature.flips[i] = NotBase64]
    /\ out' = NoOut
    /\ UNCHANGED <<users, seq, reg, now, regPlain, issued>>

NextParse ==
    \/ \E alg \in SigningMethods, key \in SecretKeys, userID \in UserIDs, expired \in BOOLEAN :
          ForgeToken(alg, key, userID, "a@b.co", expired)
    \/ \E parts \in 1..2 : MalformToken(parts, "")
    \/ MalformToken(3, BadSegment)
    \/ \E i \in AlteredPositions : SpoilSignature(i)
    \/ \E secretKey \in SecretKeys : ValidateToken(secretKey)
    \/ TickToken

SpecParse == Init /\ [][NextParse]_vars

-----------------------------------------------------------------------------
(* JWTMiddleware and UserHandler.GetMe.  An Authorization header is its     *)
(* first characters up to "Bearer " (prefix) and the rest (token); the      *)
(* empty header is the empty prefix with the empty token.                   *)

Bearer == "Bearer "

Prefixes == {"", "Basic ", Bearer}

Unauthorized(message) ==
    [status |-> 401, title |-> "Unauthorized", err |-> message, claims |-> NilClaims]

JWTMiddlewareDetailed(prefix, tokenString, t) ==
    LET valid == ValidateTokenResult(JWTSecret, tokenString, t)
    IN  IF prefix = "" /\ tokenString = NoToken
        THEN Unauthorized("Authorization header required")
        ELSE IF prefix # Bearer THEN Unauthorized("Bearer token required")
        ELSE IF tokenString = NoToken THEN Unauthorized("Token required")
        ELSE IF valid.err # NoErr THEN Unauthorized(valid.err)
        ELSE [status |-> 0, title |-> "", err |-> NoErr, claims |-> valid.claims]

JWTMiddlewareNoAbort(prefix, tokenString, t) ==
    LET valid == ValidateTokenResult(JWTSecret, tokenString, t)
    IN  IF prefix = "" /\ tokenString = NoToken
        THEN Unauthorized("Authorization header required")
        ELSE IF prefix # Bearer THEN Unauthorized("Bearer token required")
        ELSE IF tokenString = NoToken THEN Unauthorized("Token required")
        ELSE [status |-> 0, title |-> "", err |-> NoErr, claims |-> valid.claims]

\* status 0: c.Next() is called with the claims in c.Locals("user")
JWTMiddleware(prefix, tokenString, t) ==
    LET valid == ValidateTokenResult(JWTSecret, tokenString, t)
    IN  IF prefix = "" /\ tokenString = NoToken
        THEN Unauthorized("Authorization header required")
        ELSE IF prefix # Bearer THEN Unauthorized("Bearer token required")
        ELSE IF tokenString = NoToken THEN Unauthorized("Token required")
        ELSE IF valid.err # NoErr THEN Unauthorized("Invalid token")
        ELSE [status |-> 0, title |-> "", err |-> NoErr, claims |-> valid.claims]

GetMeFromClaims(rows, claims, fault) ==
    [status |-> 200, title |-> "User information retrieved successfully", err |-> NoErr,
     user |-> [NilUser EXCEPT !.ID = claims.UserID, !.Email = claims.Email]]

\* UserHandler.GetMe with the claims the middleware stored
GetMeResult(rows, claims, fault) ==
    LET found == GetUserByIDResult(rows, claims.UserID, fault)
    IN  IF found.err # NoErr
        THEN [status |-> 404, title |-> "User not found", err |-> found.err, user |-> NilUser]
        ELSE [status |-> 200, title |-> "User information retrieved successfully",
              err |-> NoErr, user |-> UserResponse(found.user)]

\* GET /me behind the middleware, with the header the client sends; out.id:
\* the id GetUserByID was called with, 0 when it was not called
GetMe(prefix, tokenString, fault) ==
    /\ LET gate == JWTMiddleware(prefix, tokenString, now)
           me == GetMeResult(users, gate.claims, fault)
           resp == [NoOut EXCEPT !.op = "GetMe", !.prefix = prefix, !.token = tokenString,
                                 !.at = now, !.claims = gate.claims]
       IN  IF gate.status # 0
           THEN out' = [resp EXCEPT !.status = gate.status, !.title = gate.title,
                                    !.err = gate.err]
           ELSE out' = [resp EXCEPT !.status = me.status, !.title = me.title,
                                    !.err = me.err, !.user = me.user,
                                    !.id = gate.claims.UserID]
    /\ UNCHANGED <<users, seq, reg, now, regPlain, tok, issued>>

\* the client keeps the token of the login response
KeepToken ==
    /\ out.op = "Login"
    /\ out.status = 200
    /\ tok' = out.token
    /\ issued' = [secret |-> JWTSecret, userID |-> out.user.ID, email |-> out.user.Email,
                  at |-> now, expirationTime |-> out.expirationTime]
    /\ out' = NoOut
    /\ UNCHANGED <<users, seq, reg, now, regPlain>>

NextMe ==
    \/ \E email \in Emails, salt \in Salts, fault \in Faults :
          RegisterUserCheck(1, email, PwSecret1, "A B", "0812345678", BdValid, salt, fault)
    \/ \E fault \in Faults : RegisterUserCreate(1, fault)
    \/ \E email \in Emails, skew \in 0..MaxSkew, fault \in Faults :
          Login(email, PwSecret1, skew, fault)
    \/ KeepToken
    \/ MalformToken(3, BadSegment)
    \/ AlterSignature(SigLen, 4)
    \/ \E prefix \in Prefixes, sent \in BOOLEAN, fault \in Faults :
          GetMe(prefix, IF sent THEN tok ELSE NoToken, fault)
    \/ \E id \in 1..MaxId, fault \in Faults :
          RepoUpdate(id, "c@d.co", "C D", BdNoPad, fault)
    \/ \E id \in 1..MaxId, fault \in Faults : RepoDelete(id, fault)
    \/ NextDay

SpecMe == Init /\ [][NextMe]_vars

-----------------------------------------------------------------------------
(* UserHandler.Register over the validator and the use case *)

PwShort == <<"a", "b", "c">>

MinPasswordLen == 6

\* full names and phone numbers shorter than min=2 and min=10
ShortNames == {"", "A"}
ShortPhones == {"", "081"}

\* validator.Validate(&dto.RegisterRequest)
ValidRegisterRequest(email, password, fullName, phoneNumber, birthday) ==
    /\ email # "" /\ IsEmail(email)
    /\ Len(password) >= MinPasswordLen
    /\ fullName \notin ShortNames
    /\ phoneNumber \notin ShortPhones
    /\ birthday # <<>>

\* the status the handler gives an error of RegisterUser
RegisterStatus(err) ==
    IF err = ErrDuplicateEmail THEN 409
    ELSE IF err = ErrInvalidBirthday THEN 400
    ELSE 500

\* POST /register up to the use case's call of userRepo.Create
Register(c, email, password, fullName, phoneNumber, birthday, salt, fault) ==
    /\ reg[c].pc = "idle"
    /\ seq + InFlight < MaxId
    /\ LET existing == GetByEmail(users, email, fault)
           hashed == GenerateFromPassword(password, salt)
           resp == [NoOut EXCEPT !.op = "Register", !.caller = c, !.email = email,
                                 !.password = password, !.birthday = birthday,
                                 !.taken = \E r \in users : r.Email = email]
           fail(e) ==
               /\ out' = [resp EXCEPT !.status = RegisterStatus(e), !.lookups = 1,
                                      !.title = "Registration failed", !.err = e]
               /\ reg' = reg
       IN  IF ~ValidRegisterRequest(email, password, fullName, phoneNumber, birthday)
           THEN /\ out' = [resp EXCEPT !.status = 400, !.title = "Validation failed",
                                       !.err = "validation error"]
                /\ reg' = reg
           ELSE IF ~existing.err /\ existing.user # NilUser THEN fail(ErrDuplicateEmail)
           ELSE IF ~timeParse(birthday) THEN fail(ErrInvalidBirthday)
           ELSE IF hashed.err THEN fail(ErrHashFailure)
           ELSE /\ reg' = [reg EXCEPT ![c] =
                     [pc |-> "create", plain |-> password,
                      user |-> NewUser(email, hashed.hash, fullName, phoneNumber, birthday, now)]]
                /\ out' = NoOut
    /\ UNCHANGED <<users, seq, now, regPlain, tok, issued>>

\* POST /register from userRepo.Create to the response
RegisterCreate(c, fault) ==
    /\ reg[c].pc = "create"
    /\ LET u == reg[c].user
           saved == Create(users, seq, u, fault)
           resp == [NoOut EXCEPT !.op = "Register", !.caller = c, !.email = u.Email,
                                 !.password = reg[c].plain, !.birthday = u.Birthday]
       IN  /\ users' = saved.rows
           /\ seq' = saved.seq
           /\ IF saved.err
              THEN /\ out' = [resp EXCEPT !.status = RegisterStatus(ErrSaveFailure),
                                          !.title = "Registration failed",
                                          !.err = ErrSaveFailure]
                   /\ regPlain' = regPlain
              ELSE /\ out' = [resp EXCEPT !.status = 201,
                                          !.title = "User registered successfully",
                                          !.user = UserResponse(WithoutPassword(saved.user))]
                   /\ regPlain' = regPlain \cup {<<saved.user.ID, reg[c].plain>>}
    /\ reg' = [reg EXCEPT ![c] = Idle]
    /\ UNCHANGED <<now, tok, issued>>

NextRegister ==
    \/ \E c \in Callers, email \in Emails \cup {"not-an-email"},
          password \in {PwSecret1, PwShort, PwTooLong},
          birthday \in {BdValid, BdNoPad, BdEmpty}, salt \in Salts, fault \in Faults :
          Register(c, email, password, "A B", "0812345678", birthday, salt, fault)
    \/ \E c \in Callers, fault \in Faults : RegisterCreate(c, fault)
    \/ \E id \in 1..MaxId, fault \in Faults : RepoDelete(id, fault)

SpecRegister == Init /\ [][NextRegister]_vars

-----------------------------------------------------------------------------
(* A client of the repository that looks at what its calls return *)

ErrSql == "sql: statement failed"

CallUpdate(id, email, fullName, fault) ==
    /\ LET res == Update(users,
                         [NewUser(email, <<>>, fullName, "0898765432", BdValid, now)
                            EXCEPT !.ID = id], fault)
       IN  /\ users' = res.rows
           /\ out' = [NoOut EXCEPT !.op = "Update", !.id = id, !.email = email,
                                   !.err = IF res.err THEN ErrSql ELSE NoErr]
    /\ UNCHANGED <<seq, reg, now, regPlain, tok, issued>>

CallDelete(id, fault) ==
    /\ LET res == Delete(users, id, fault)
       IN  /\ users' = res.rows
           /\ out' = [NoOut EXCEPT !.op = "Delete", !.id = id,
                                   !.err = IF res.err THEN ErrSql ELSE NoErr]
    /\ regPlain' = {h \in regPlain : \E r \in users' : r.ID = h[1]}
    /\ UNCHANGED <<seq, reg, now, tok, issued>>

CallGetByID(id, fault) ==
    /\ LET res == GetByID(users, id, fault)
       IN  out' = [NoOut EXCEPT !.op = "GetByID", !.id = id, !.user = res.user,
                                !.err = IF res.err THEN ErrSql ELSE NoErr]
    /\ UNCHANGED <<users, seq, reg, now, regPlain, tok, issued>>

NextStore ==
    \/ \E email \in Emails, fullName \in FullNames, fault \in Faults :
          RepoCreate(email, fullName, fault)
    \/ \E id \in 1..(MaxId + 1), email \in Emails, fault \in Faults :
          CallUpdate(id, email, "C D", fault)
    \/ \E id \in 1..(MaxId + 1), fault \in Faults : CallDelete(id, fault)
    \/ \E id \in 1..(MaxId + 1), fault \in Faults : CallGetByID(id, fault)
    \/ Tick

SpecStore == Init /\ [][NextStore]_vars

-----------------------------------------------------------------------------
(* The use case over a store whose statements may fail *)

NextFaulty ==
    \/ \E c \in Callers, email \in Emails, password \in {PwSecret1, PwTooLong},
          birthday \in {BdValid, BdNoPad}, salt \in Salts, fault \in BOOLEAN :
          RegisterUserCheck(c, email, password, "A B", "0812345678", birthday, salt, fault)
    \/ \E c \in Callers, fault \in BOOLEAN : RegisterUserCreate(c, fault)
    \/ \E email \in Emails, password \in {PwSecret1, PwSecret2}, fault \in BOOLEAN :
          AuthenticateUser(email, password, fault)
    \/ \E id \in 1..MaxId, fault \in BOOLEAN : GetUserByID(id, fault)
    \/ \E id \in 1..MaxId : RepoDelete(id, FALSE)

SpecFaulty == Init /\ [][NextFaulty]_vars

-----------------------------------------------------------------------------
(* The token service beside a store whose rows come, change and go *)

NextStateless ==
    \/ \E email \in Emails, fault \in Faults : RepoCreate(email, "C D", fault)
    \/ \E id \in 1..MaxId, fault \in Faults : RepoUpdate(id, "c@d.co", "C D", BdNoPad, fault)
    \/ \E id \in 1..MaxId, fault \in Faults : RepoDelete(id, fault)
    \/ \E r \in users : GenerateToken(JWTSecret, r.ID, r.Email, 0)
    \/ \E secretKey \in {JWTSecret, "wrong-secret"} : ValidateToken(secretKey)
    \/ TickToken
    \/ NextDay

SpecStateless == Init /\ [][NextStateless]_vars

-----------------------------------------------------------------------------
(* Concurrent RegisterUser calls with valid inputs against an empty store   *)
(* no other client writes to                                                 *)

NextRace ==
    \/ \E c \in Callers, email \in Emails, password \in {PwSecret1, PwSecret2},
          salt \in Salts, fault \in Faults :
          RegisterUserCheck(c, email, password, "A B", "0812345678", BdValid, salt, fault)
    \/ \E c \in Callers, fault \in Faults : RegisterUserCreate(c, fault)

SpecRace == Init /\ [][NextRace]_vars

-----------------------------------------------------------------------------
(* The in-memory prototype: registerUser over the package-level slice users *)
(* and the counter userIDCounter, here the variables users (a sequence) and  *)
(* seq.  Fiber runs the handler of each connection in a goroutine of its     *)
(* own and the prototype takes no lock, so the loads and stores of the two   *)
(* package variables by different requests interleave.                        *)

InitMemory ==
    /\ users = <<>>
    /\ seq = 1
    /\ reg = [c \in Callers |-> Idle]
    /\ now = 0
    /\ out = NoOut
    /\ regPlain = {}
    /\ tok = NoToken
    /\ issued = NoIssue

Handling == Cardinality({c \in Callers : reg[c].pc # "idle"})

\* the validator, the range loop over users, the hashing and time.Parse
registerUserScan(c, email, password, birthday, salt) ==
    /\ reg[c].pc = "idle"
    /\ Len(users) + Handling < MaxId
    /\ LET hashed == GenerateFromPassword(password, salt)
           resp == [NoOut EXCEPT !.op = "registerUser", !.caller = c, !.email = email,
                                 !.password = password, !.birthday = birthday]
           fail(status, title) ==
               /\ out' = [resp EXCEPT !.status = status, !.title = title, !.err = title]
               /\ reg' = reg
       IN  IF ~ValidRegisterRequest(email, password, "A B", "0812345678", birthday)
           THEN fail(400, "Validation failed")
           ELSE IF \E i \in 1..Len(users) : users[i].Email = email
           THEN fail(409, "Email already exists")
           ELSE IF hashed.err THEN fail(500, "Failed to hash password")
           ELSE IF ~timeParse(birthday) THEN fail(400, "Invalid birthday format")
           ELSE /\ reg' = [reg EXCEPT ![c] =
                     [pc |-> "new", plain |-> password,
                      user |-> NewUser(email, hashed.hash, "A B", "0812345678", birthday, now)]]
                /\ out' = NoOut
    /\ UNCHANGED <<users, seq, now, regPlain, tok, issued>>

\* newUser := User{ID: userIDCounter, ...}
registerUserNew(c) ==
    /\ reg[c].pc = "new"
    /\ reg' = [reg EXCEPT ![c].pc = "load", ![c].user.ID = seq]
    /\ out' = NoOut
    /\ UNCHANGED <<users, seq, now, regPlain, tok, issued>>

\* users = append(users, newUser): the load of users
registerUserLoad(c) ==
    /\ reg[c].pc = "load"
    /\ reg' = [reg EXCEPT ![c] = [pc |-> "store", plain |-> reg[c].plain,
                                  user |-> reg[c].user, slice |-> users]]
    /\ out' = NoOut
    /\ UNCHANGED <<users, seq, now, regPlain, tok, issued>>

\* users = append(users, newUser): the store to users
registerUserStore(c) ==
    /\ reg[c].pc = "store"
    /\ users' = Append(reg[c].slice, reg[c].user)
    /\ reg' = [reg EXCEPT ![c] = [pc |-> "count", plain |-> reg[c].plain,
                                  user |-> reg[c].user, counter |-> seq]]
    /\ out' = NoOut
    /\ UNCHANGED <<seq, now, regPlain, tok, issued>>

\* userIDCounter++ with the counter loaded after the append, and the response
registerUserReturn(c) ==
    /\ reg[c].pc = "count"
    /\ seq' = reg[c].counter + 1
    /\ out' = [NoOut EXCEPT !.op = "registerUser", !.caller = c,
                            !.email = reg[c].user.Email, !.password = reg[c].plain,
                            !.birthday = reg[c].user.Birthday, !.status = 201,
                            !.title = "User registered successfully",
                            !.user = [reg[c].user EXCEPT !.Password = <<>>]]
    /\ reg' = [reg EXCEPT ![c] = Idle]
    /\ UNCHANGED <<users, now, regPlain, tok, issued>>

NextMemory ==
    \/ \E c \in Callers, email \in Emails, password \in {PwSecret1, PwShort},
          birthday \in {BdValid, BdNoPad}, salt \in Salts :
          registerUserScan(c, email, password, birthday, salt)
    \/ \E c \in Callers : registerUserNew(c)
    \/ \E c \in Callers : registerUserLoad(c)
    \/ \E c \in Callers : registerUserStore(c)
    \/ \E c \in Callers : registerUserReturn(c)

SpecMemory == InitMemory /\ [][NextMemory]_vars

-----------------------------------------------------------------------------
(* POST /register of the single-file server (main.go) and of the layered    *)
(* server, each as the function of the store and the request that it is     *)
(* when no other request runs, applied to the same store                    *)

\* main.go registerUser: the status of the response and the table after it
registerUserResult(rows, s, email, password, birthday, salt, t, lookupFault, createFault) ==
    LET existingUser == GetByEmail(rows, email, lookupFault)
        hashedPassword == GenerateFromPassword(password, salt)
        savedUser == Create(rows, s,
                            NewUser(email, hashedPassword.hash, "A B", "0812345678", birthday, t),
                            createFault)
        answer(status) == [status |-> status, rows |-> rows, seq |-> s]
    IN  IF ~ValidRegisterRequest(email, password, "A B", "0812345678", birthday)
        THEN answer(400)
        ELSE IF ~existingUser.err /\ existingUser.user # NilUser THEN answer(409)
        ELSE IF hashedPassword.err THEN answer(500)
        ELSE IF ~timeParse(birthday) THEN answer(400)
        ELSE IF savedUser.err THEN answer(500)
        ELSE [status |-> 201, rows |-> savedUser.rows, seq |-> savedUser.seq]

\* UserUseCase.RegisterUser: the error returned and the table after it
RegisterUserResult(rows, s, email, password, birthday, salt, t, lookupFault, createFault) ==
    LET existingUser == GetByEmail(rows, email, lookupFault)
        hashedPassword == GenerateFromPassword(password, salt)
        savedUser == Create(rows, s,
                            NewUser(email, hashedPassword.hash, "A B", "0812345678", birthday, t),
                            createFault)
        fail(e) == [err |-> e, rows |-> rows, seq |-> s]
    IN  IF ~existingUser.err /\ existingUser.user # NilUser THEN fail(ErrDuplicateEmail)
        ELSE IF ~timeParse(birthday) THEN fail(ErrInvalidBirthday)
        ELSE IF hashedPassword.err THEN fail(ErrHashFailure)
        ELSE IF savedUser.err
        THEN fail(SaveError(CreateError(rows, [Email |-> email], createFault)))
        ELSE [err |-> NoErr, rows |-> savedUser.rows, seq |-> savedUser.seq]

\* UserHandler.Register: the status of the response and the table after it
RegisterResult(rows, s, email, password, birthday, salt, t, lookupFault, createFault) ==
    LET res == RegisterUserResult(rows, s, email, password, birthday, salt, t,
                                  lookupFault, createFault)
    IN  IF ~ValidRegisterRequest(email, password, "A B", "0812345678", birthday)
        THEN [status |-> 400, rows |-> rows, seq |-> s]
        ELSE IF res.err # NoErr
        THEN [status |-> RegisterStatus(res.err), rows |-> rows, seq |-> s]
        ELSE [status |-> 201, rows |-> res.rows, seq |-> res.seq]

\* one request; the store goes on as the layered server leaves it
PostRegister(email, password, birthday, salt, lookupFault, createFault) ==
    /\ seq < MaxId
    /\ LET layered == RegisterResult(users, seq, email, password, birthday, salt, now,
                                     lookupFault, createFault)
           single == registerUserResult(users, seq, email, password, birthday, salt, now,
                                        lookupFault, createFault)
       IN  /\ users' = layered.rows
           /\ seq' = layered.seq
           /\ regPlain' = IF layered.status = 201
                          THEN regPlain \cup {<<layered.seq, password>>}
                          ELSE regPlain
           /\ out' = [NoOut EXCEPT !.op = "PostRegister", !.email = email,
                                   !.password = password, !.birthday = birthday,
                                   !.taken = \E r \in users : r.Email = email,
                                   !.status = layered.status,
                                   !.monolith = [status |-> single.status,
                                                 rows |-> single.rows]]
    /\ UNCHANGED <<reg, now, tok, issued>>

NextEquiv ==
    \/ \E email \in Emails \cup {"not-an-email"}, password \in {PwSecret1, PwShort, PwTooLong},
          birthday \in {BdValid, BdNoPad, BdEmpty}, salt \in Salts,
          lookupFault \in BOOLEAN, createFault \in BOOLEAN :
          PostRegister(email, password, birthday, salt, lookupFault, createFault)
    \/ \E id \in 1..MaxId : RepoDelete(id, FALSE)

SpecEquiv == Init /\ [][NextEquiv]_vars

-----------------------------------------------------------------------------
(* A client that keeps the token of a login while users are deleted and     *)
(* registered                                                               *)

NextReuse ==
    \/ \E email \in Emails, salt \in Salts, fault \in Faults :
          RegisterUserCheck(1, email, PwSecret1, "A B", "0812345678", BdValid, salt, fault)
    \/ \E fault \in Faults : RegisterUserCreate(1, fault)
    \/ \E email \in Emails, fault \in Faults : Login(email, PwSecret1, 0, fault)
    \/ KeepToken
    \/ \E fault \in Faults : GetMe(Bearer, tok, fault)
    \/ \E id \in 1..MaxId, fault \in Faults : RepoDelete(id, fault)
    \/ Tick

SpecReuse == Init /\ [][NextReuse]_vars

-----------------------------------------------------------------------------
(* Properties *)

\* the stored row with this e-mail was persisted by RegisterUser
Registered(r) == \E h \in regPlain : h[1] = r.ID

\* the plaintext RegisterUser hashed for the stored row r
PlainOf(r) == (CHOOSE h \in regPlain : h[1] = r.ID)[2]

\* C1: in every reachable state of concurrent RegisterUser calls and store
\* Create/Update/Delete calls, no two stored user records have the same email
C1_UniqueEmail == \A r1, r2 \in users : r1.Email = r2.Email => r1 = r2

\* C1 case: a registration that passed the lookup reached Create when a row
\* with its e-mail was stored, and the table still holds that one row for it
C1_Witness ==
    /\ out.op = "RegisterUser"
    /\ out.err = ErrSaveFailure
    /\ Cardinality({r \in users : r.Email = out.email}) = 1

\* C2: a RegisterUser that fails while a registered row holds its e-mail
\* fails with the DuplicateEmail error, whichever step of the call found the
\* row (the lookup or the UNIQUE index in Create)
C2_SecondRegisterIsDuplicate ==
    (/\ out.op = "RegisterUser"
     /\ out.err # NoErr
     /\ \E r \in users : r.Email = out.email /\ Registered(r))
    => out.err = ErrDuplicateEmail

\* C3: the record a successful AuthenticateUser returns has an empty password
C3_AuthenticateClearsPassword ==
    (out.op = "AuthenticateUser" /\ out.err = NoErr) => out.user.Password = <<>>

\* C4: AuthenticateUser with the e-mail of a row RegisterUser persisted and the
\* plaintext given at its registration succeeds and returns that row's record
C4_RegisterThenAuthenticate ==
    \A r \in users :
        (/\ out.op = "AuthenticateUser"
         /\ r.Email = out.email
         /\ <<r.ID, out.password>> \in regPlain)
        => /\ out.err = NoErr
           /\ WithoutPassword(out.user) = WithoutPassword(r)

\* C4 case: the authenticated row is as RegisterUser stored it
C4_Witness ==
    \E r \in users :
        /\ out.op = "AuthenticateUser"
        /\ out.err = NoErr
        /\ r.Email = out.email
        /\ <<r.ID, out.password>> \in regPlain
        /\ r.PhoneNumber \in PhoneNumbers
        /\ r.ID # 0
        /\ out.user.ID = r.ID

\* the e-mail of the last call is in no stored row
UnknownEmail == ~\E r \in users : r.Email = out.email

\* the e-mail of the last call is in a row registered with a plaintext that
\* bcrypt tells apart from the password of the call
WrongPassword ==
    \E r \in users :
        /\ r.Email = out.email
        /\ Registered(r)
        /\ bcryptKey(PlainOf(r)) # bcryptKey(out.password)

\* the value a caller holds, without the arguments it passed itself
Returned == [out EXCEPT !.email = "", !.password = <<>>]

C6_ReturnedWithoutPassword ==
    (out.op \in {"RegisterUser", "GetUserByID"} /\ out.err = NoErr)
    => /\ out.user.Password = <<>>
       /\ out.user.ID # 0
       /\ \E r \in users :
             /\ [r EXCEPT !.Password = <<>>] = out.user
             /\ r.Password # <<>>

\* C6 case: GetUserByID returned the record of a row RegisterUser stored
C6_Witness ==
    /\ out.op = "GetUserByID"
    /\ out.err = NoErr
    /\ \E r \in users : r.ID = out.id /\ Registered(r) /\ r.Email = out.user.Email

\* C7: every stored row RegisterUser persisted holds a non-empty password
\* value that is not the plaintext given at registration and that verifies
\* against that plaintext
C7_StoredHash ==
    \A h \in regPlain : \A r \in users :
        r.ID = h[1]
        => /\ r.Password # <<>>
           /\ r.Password # h[2]
           /\ CompareHashAndPassword(r.Password, h[2])

\* C7 case: two registered rows are stored
C7_Witness ==
    /\ Cardinality(users) = 2
    /\ \A r \in users : Registered(r) /\ PlainOf(r) \in {PwSecret1, PwSecret2}

\* the exact zero-padded form: dddd-dd-dd and nothing else
MatchesForm(b) ==
    /\ Len(b) = 10
    /\ \A i \in {1, 2, 3, 4, 6, 7, 9, 10} : b[i] \in Digits
    /\ b[5] = "-"
    /\ b[8] = "-"

\* C8: RegisterUser with a birthday not of the form YYYY-MM-DD and an e-mail
\* no stored row holds fails with InvalidBirthdayFormat and persists nothing
C8_InvalidBirthday ==
    (out.op = "RegisterUser" /\ ~MatchesForm(out.birthday) /\ ~out.taken)
    => /\ out.err = ErrInvalidBirthday
       /\ out.user = NilUser
       /\ reg[out.caller].pc = "idle"
       /\ ~\E r \in users : r.Email = out.email

\* C8 case: 1990-1-1 is rejected while another row is stored
C8_Witness ==
    /\ out.op = "RegisterUser"
    /\ out.birthday = BdNoPad
    /\ out.err = ErrInvalidBirthday
    /\ users # {}

\* the token the client holds is the one GenerateToken returned
Unaltered == tok.parts = 3 /\ tok.signature.flips = NoFlips

\* C9: ValidateToken under the secret GenerateToken signed with, of the token
\* as GenerateToken returned it and before the time of its exp claim,
\* succeeds and returns the UserID and the Email GenerateToken was given
C9_RoundTrip ==
    (/\ out.op = "ValidateToken"
     /\ Unaltered
     /\ out.secret = issued.secret
     /\ out.at < NumericTime(tok.payload.exp))
    => /\ out.err = NoErr
       /\ out.claims.UserID = issued.userID
       /\ out.claims.Email = issued.email

\* C9 case: a token validated some time after it was issued
C9_Witness ==
    /\ out.op = "ValidateToken"
    /\ Unaltered
    /\ out.secret = issued.secret
    /\ out.err = NoErr
    /\ out.at > issued.at
    /\ out.claims.UserID = 2

\* C10: ValidateToken of a token signed under another secret, or of a token
\* with one character of its signature segment altered, fails with the
\* invalid-signature error
C10_ForeignOrAlteredSignature ==
    (/\ out.op = "ValidateToken"
     /\ tok.parts = 3
     /\ (out.secret # issued.secret \/ tok.signature.flips # NoFlips))
    => out.err = ErrTokenSignatureInvalid

\* C11: ValidateToken accepts a token only if its signing algorithm is HS256,
\* the one GenerateToken signs with
C11_OnlyHS256 ==
    (out.op = "ValidateToken" /\ out.err = NoErr) => out.token.header = "HS256"

\* the times the token clock takes
ClockValues == {d * DayTicks + k : d \in 0..MaxDays, k \in 0..MaxDayTicks}

\* C12: a correctly signed token validates exactly while the time of its exp
\* claim is strictly later than the current time, fails with the expired
\* error from that time on, and once rejected as expired is rejected as
\* expired at every later time
C12_StrictExpiry ==
    (out.op = "ValidateToken" /\ Unaltered /\ out.secret = issued.secret)
    => /\ (out.err = NoErr) <=> (NumericTime(tok.payload.exp) > out.at)
       /\ (out.at >= NumericTime(tok.payload.exp)) => (out.err = ErrTokenExpired)
       /\ (out.err = ErrTokenExpired)
          => \A t \in ClockValues :
                t >= out.at => ValidateTokenResult(out.secret, tok, t).err = ErrTokenExpired

\* C12 case: validation at the very time of the exp claim
C12_Witness ==
    /\ out.op = "ValidateToken"
    /\ Unaltered
    /\ out.secret = issued.secret
    /\ out.at = NumericTime(tok.payload.exp)
    /\ out.err = ErrTokenExpired

\* C13: the claims of every token GenerateToken issues have
\* exp = iat + 24 hours exactly
C13_ExpiryIsIssuedPlus24h ==
    (out.op = "GenerateToken" /\ out.err = NoErr)
    => out.token.payload.exp = out.token.payload.iat + ExpiryHours * SecondsPerHour

\* C14: the expiration time GenerateToken returned equals the ExpiresAt that
\* ValidateToken decodes from the same token
C14_ReturnedExpiryIsClaim ==
    (/\ out.op = "ValidateToken"
     /\ out.err = NoErr
     /\ Unaltered
     /\ out.secret = issued.secret)
    => out.claims.ExpiresAt = issued.expirationTime

\* a string that is not a parseable token: not three segments, a header
\* segment that decodes to no JSON object, or (under an HMAC algorithm) a
\* signature segment with a character outside base64url
Unparseable(t) ==
    \/ t.parts # 3
    \/ t.header = BadSegment
    \/ t.header \in HmacMethods /\ \E i \in 1..SigLen : t.signature.flips[i] = NotBase64

\* C15: ValidateToken of a string that is not a parseable token returns the
\* malformed-token error and no claims, and no ValidateToken returns claims
\* together with an error
C15_Malformed ==
    /\ (out.op = "ValidateToken" /\ Unparseable(out.token))
       => (out.err = ErrTokenMalformed /\ out.claims = NilClaims)
    /\ (out.op = "ValidateToken" /\ out.err # NoErr) => out.claims = NilClaims

\* C15 case: "invalid.jwt.token" was rejected
C15_Witness ==
    /\ out.op = "ValidateToken"
    /\ out.token.parts = 3
    /\ out.token.header = BadSegment
    /\ out.err = ErrTokenMalformed

\* the gate rejected the request with this message and nothing else
Rejected(message) ==
    /\ out.status = 401
    /\ out.title = "Unauthorized"
    /\ out.err = message
    /\ out.claims = NilClaims
    /\ out.user = NilUser

\* C16: for every Authorization header the gate gives one outcome, decided in
\* this order: empty header, no "Bearer " prefix, empty token, any
\* ValidateToken failure (one generic message), else the validated claims
C16_GateOrder ==
    out.op = "GetMe"
    => LET valid == ValidateTokenResult(JWTSecret, out.token, out.at)
       IN  IF out.prefix = "" /\ out.token = NoToken
           THEN Rejected("Authorization header required")
           ELSE IF out.prefix # Bearer THEN Rejected("Bearer token required")
           ELSE IF out.token = NoToken THEN Rejected("Token required")
           ELSE IF valid.err # NoErr THEN Rejected("Invalid token")
           ELSE out.status # 401 /\ out.claims = valid.claims /\ valid.claims # NilClaims

\* C16 case: an expired token behind "Bearer " gets the generic message
C16_Witness ==
    /\ out.op = "GetMe"
    /\ out.prefix = Bearer
    /\ ValidateTokenResult(JWTSecret, out.token, out.at).err = ErrTokenExpired
    /\ out.err = "Invalid token"

\* C17: GET /me with a token that validates answers 200 with the current
\* stored record of the token's user id, without password, when a row has
\* that id, and 404 "user not found" when none has
C17_GetMe ==
    (out.op = "GetMe" /\ out.status # 401)
    => IF \E r \in users : r.ID = out.claims.UserID
       THEN /\ out.status = 200
            /\ out.user = [Row(users, out.claims.UserID) EXCEPT !.Password = <<>>]
       ELSE /\ out.status = 404
            /\ out.err = ErrUserNotFound
            /\ out.user = NilUser

\* C17 case: the user of a login token was deleted after the login
C17_Witness ==
    /\ out.op = "GetMe"
    /\ out.status = 404
    /\ out.token = tok
    /\ issued.secret = JWTSecret
    /\ out.claims.UserID = issued.userID
    /\ seq >= issued.userID

\* C18: a POST /register that passed validation and is refused while a
\* stored row holds its e-mail answers 409, whichever step found the row
\* (the lookup or the UNIQUE index in Create)
C18_TakenEmailIs409 ==
    (/\ out.op = "Register"
     /\ out.title = "Registration failed"
     /\ \E r \in users : r.Email = out.email)
    => out.status = 409

AbsentId == ~\E r \in users : r.ID = out'.id

\* C20: Update and Delete for an id no row has return a nil error and leave
\* every row as it was; Delete for an id a row has returns a nil error and
\* removes that row and no other, and GetByID for the id then fails
C20_UpdateDeleteFrame ==
    [][/\ (out'.op \in {"Update", "Delete"} /\ AbsentId)
          => (out'.err = NoErr /\ users' = users)
       /\ (out'.op = "Delete" /\ ~AbsentId)
          => /\ out'.err = NoErr
             /\ users' = users \ {Row(users, out'.id)}
             /\ Cardinality(users') = Cardinality(users) - 1
             /\ GetByID(users', out'.id, FALSE).err]_vars

\* C20 case: an Update for an id never assigned returned nil while rows are
\* stored
C20_Witness ==
    /\ out.op = "Update"
    /\ out.err = NoErr
    /\ out.id > seq
    /\ users # {}

\* C21: when Create fails, RegisterUser returns no user and the fixed error
\* 'failed to save user', whatever error the store returned; the store's
\* message is not in the returned error
C21_FixedSaveError ==
    (out.op = "RegisterUser" /\ out.cause # NoErr) =>
        /\ out.err = ErrSaveFailure
        /\ out.err # out.cause
        /\ out.user = NilUser

\* C21 case: Create failed with a database error that is no constraint
\* violation
C21_Witness ==
    /\ out.op = "RegisterUser"
    /\ out.cause = ErrDatabase
    /\ out.err = ErrSaveFailure

\* C22: on the protected route the handler GetMe runs, and GetUserByID is
\* called, only for a request whose Bearer token ValidateToken accepted, with
\* exactly the claims ValidateToken returned; a request without a valid token
\* is answered 401 and no user is looked up
C22_HandlerBehindGate ==
    out.op = "GetMe" =>
        LET valid == ValidateTokenResult(JWTSecret, out.token, out.at)
            ran == out.id # 0 \/ out.status \in {200, 404} \/ out.user # NilUser
        IN  /\ ran => /\ out.prefix = Bearer
                       /\ valid.err = NoErr
                       /\ out.claims = valid.claims
                       /\ out.id = valid.claims.UserID
            /\ (out.prefix # Bearer \/ valid.err # NoErr) =>
                   /\ ~ran
                   /\ out.status = 401

\* C22 case: the handler ran for the token of a login, looked up the id in its
\* claims and found the user deleted
C22_Witness ==
    /\ out.op = "GetMe"
    /\ out.status = 404
    /\ out.id = issued.userID
    /\ out.claims.Email = issued.email
    /\ issued.secret = JWTSecret

\* C23: no step changes the id or the createdAt of a stored row; an Update
\* keeps the set of ids, leaves every row with another id as it was, and
\* leaves id, createdAt and password hash of the row with the given id as they
\* were while it writes the e-mail and phone number it was given (a refused
\* Update leaves that row as it was)
C23_UpdateFrame ==
    [][/\ \A r \in users : \A q \in users' : q.ID = r.ID => q.CreatedAt = r.CreatedAt
       /\ out'.op = "Update" =>
             /\ {q.ID : q \in users'} = {r.ID : r \in users}
             /\ Cardinality(users') = Cardinality(users)
             /\ \A r \in users : r.ID # out'.id => r \in users'
             /\ \A r \in users : r.ID = out'.id =>
                   \E q \in users' :
                      /\ q.ID = r.ID
                      /\ q.CreatedAt = r.CreatedAt
                      /\ q.Password = r.Password
                      /\ out'.err # NoErr => q = r
                      /\ out'.err = NoErr => /\ q.Email = out'.email
                                              /\ q.PhoneNumber = "0898765432"]_vars

\* C23 case: an Update given another createdAt and an empty password rewrote
\* the contact fields of one of two stored rows
C23_Witness ==
    /\ out.op = "Update"
    /\ out.err = NoErr
    /\ Cardinality(users) = 2
    /\ \E r \in users : /\ r.ID = out.id
                          /\ r.PhoneNumber = "0898765432"
                          /\ r.Password = PwUnhashed
                          /\ r.CreatedAt < now

\* C24: a POST /register whose body fails a field validator, or whose
\* birthday is not of the form YYYY-MM-DD, is answered 400 without a GetByEmail
\* (and so without a Create) having been made for it
C24_RejectedBeforeStore ==
    (/\ out.op = "Register"
     /\ \/ ~ValidRegisterRequest(out.email, out.password, "A B", "0812345678", out.birthday)
        \/ ~MatchesForm(out.birthday))
    => (out.status = 400 /\ out.lookups = 0)

\* C25: what ValidateToken returns is fixed by the token string, the secret
\* and the current time; the token issued for a stored user validates, with
\* the id and e-mail it was issued for, exactly until the time of its exp
\* claim, whatever rows the store holds by then; and no GenerateToken or
\* ValidateToken step changes the store
C25_Stateless ==
    /\ [](out.op = "ValidateToken" =>
            LET res == ValidateTokenResult(out.secret, out.token, out.at)
            IN  /\ out.err = res.err
                /\ out.claims = res.claims
                /\ (Unaltered /\ out.secret = issued.secret) =>
                      /\ (out.err = NoErr) <=> (out.at < NumericTime(tok.payload.exp))
                      /\ (out.err = NoErr) => /\ out.claims.UserID = issued.userID
                                              /\ out.claims.Email = issued.email)
    /\ [][out'.op \in {"GenerateToken", "ValidateToken"} =>
             /\ users' = users
             /\ seq' = seq
             /\ reg' = reg
             /\ regPlain' = regPlain]_vars

\* C25 case: the token of a user deleted since it was issued validates
C25_Witness ==
    /\ out.op = "ValidateToken"
    /\ out.err = NoErr
    /\ out.at > issued.at
    /\ issued.userID \in 1..seq
    /\ ~\E r \in users : r.ID = issued.userID
    /\ \E r \in users : r.Email = issued.email

\* C26: of the RegisterUser calls with one e-mail and valid inputs that run
\* concurrently against an empty store, the call that returns while no row
\* holds the e-mail returns the user and stores its row, every call that
\* returns once a row holds it returns an error and stores nothing, and the
\* store holds exactly one row per successful call and never two for an e-mail
C26_OneWinner ==
    /\ [](/\ \A e \in Emails : Cardinality({r \in users : r.Email = e}) <= 1
          /\ seq = Cardinality(users))
    /\ [][out'.op = "RegisterUser" =>
             IF \E r \in users : r.Email = out'.email
             THEN /\ out'.err # NoErr
                  /\ out'.user = NilUser
                  /\ users' = users
             ELSE /\ out'.err = NoErr
                  /\ out'.user.Email = out'.email
                  /\ Cardinality(users') = Cardinality(users) + 1
                  /\ \E r \in users' \ users : WithoutPassword(r) = out'.user]_vars

\* C26 case: every caller has returned, the last of them the loser of a race
\* both entered before either reached Create, and one row is stored for the
\* e-mail
C26_Witness ==
    /\ out.op = "RegisterUser"
    /\ out.cause = ErrUniqueEmail
    /\ \A c \in Callers : reg[c] = Idle
    /\ Cardinality({r \in users : r.Email = out.email}) = 1
    /\ users = {r \in users : r.Email = out.email}

\* C27: in the in-memory prototype, after any interleaving of concurrently
\* handled registerUser requests, no two elements of the slice users have the
\* same e-mail
C27_SliceUniqueEmail ==
    \A i, j \in 1..Len(users) : users[i].Email = users[j].Email => i = j

\* C28: over every sequence of registrations and deletions the id given to a
\* new row is larger than every id given before, so no id is given twice; and
\* GET /me with the token of a login answers 200 only with the record that
\* had the token's id when the token was issued, never with a row stored
\* since
C28_IdsNeverReused ==
    /\ [](\A r \in users : r.ID \in 1..seq)
    /\ [][/\ seq' >= seq
          /\ \A r \in users' : (~\E q \in users : q.ID = r.ID) => r.ID > seq]_vars
    /\ []((/\ out.op = "GetMe"
           /\ out.status = 200
           /\ out.token = tok
           /\ issued.secret = JWTSecret)
          => /\ out.user.ID = issued.userID
             /\ out.user.CreatedAt <= issued.at)

\* C28 case: the user the token was issued to was deleted and the e-mail
\* registered again; the new row has the next id and GET /me with the old
\* token finds no user
C28_Witness ==
    /\ out.op = "GetMe"
    /\ out.status = 404
    /\ out.token = tok
    /\ issued.userID = 1
    /\ \E r \in users : /\ users = {r}
                          /\ r.ID = 2
                          /\ Registered(r)
                          /\ r.Email = issued.email

\* C29: a RegisterUser call that returns an error (duplicate e-mail, invalid
\* birthday, hashing failure or failure of the store) leaves the stored rows
\* as they were, and no AuthenticateUser or GetUserByID call, failed or not,
\* changes them
C29_FailureWritesNothing ==
    [][/\ (out'.op = "RegisterUser" /\ out'.err # NoErr) => users' = users
       /\ out'.op \in {"AuthenticateUser", "GetUserByID"} =>
             (users' = users /\ seq' = seq)]_vars

\* C29 case: the INSERT of a registration failed in the database while other
\* rows are stored, and no row holds the e-mail
C29_Witness ==
    /\ out.op = "RegisterUser"
    /\ out.err = ErrSaveFailure
    /\ out.cause = ErrDatabase
    /\ users # {}
    /\ ~\E r \in users : r.Email = out.email

\* C30: for the same store and the same request, with any of the defects
\* (taken e-mail, malformed birthday, unhashable password, failing store)
\* alone or together, main.go's registerUser and the layered Register answer
\* with the same status and leave the same rows stored
C30_SameStatusAndRows ==
    out.op = "PostRegister" =>
        /\ out.monolith.status = out.status
        /\ out.monolith.rows = users

=============================================================================
